---- MODULE Spec2Model ----
(***************************************************************************)
(* react-spatial-view: the pan-and-zoom state machine of <SpatialView>,    *)
(* its context/provider and the useSpatialView hook.                       *)
(*                                                                         *)
(* JavaScript numbers are modelled as exact rationals <<n, d>> (d > 0,     *)
(* gcd(n, d) = 1); Number(x.toFixed(3)) is modelled by Round3.  One unit   *)
(* of model time is 100 ms, the granularity of the component's timers      *)
(* (100 ms, 200 ms, 500 ms).                                               *)
(***************************************************************************)
EXTENDS Integers, Sequences, FiniteSets, TLC

VARIABLES
    props,              \* SpatialViewProps of the mounted component
    scale,              \* useState(initialScale)
    position,           \* useState(initialPosition)
    scaleRef,           \* useRef(scale)
    positionRef,        \* useRef(position)
    isDragging,         \* useState(false)
    isMoving,           \* useState(false)
    isZooming,          \* useState(false)
    dragStart,          \* useRef({x: 0, y: 0})
    lastTouchDistance,  \* useRef<number | null>(null)
    zoomTimeout,        \* pending timer of zoomTimeoutRef (time left, or NoTimer)
    dragTimeout,        \* pending timer of dragTimeoutRef
    adjustmentTimeout,  \* pending timer of adjustmentTimeoutRef
    restoreTimers,      \* pending anonymous setTimeout()s restoring style.transition
    transition,         \* contentRef.current.style.transition
    rendered,           \* the transform the content box is drawn with
    mounted,            \* containerRef.current / contentRef.current are set
    listening,          \* the container's native listeners are attached (effects not cleaned up)
    frameUpdates,       \* transform updates made by wheel events since the last frame boundary
    ev,                 \* the last operation, its inputs and its outcome
    prev,               \* scaleRef / positionRef as the last operation found them
    drag,               \* pointer and positionRef at the last accepted mouse-down / touch-start
    steps               \* number of input events so far

vars == <<props, scale, position, scaleRef, positionRef, isDragging, isMoving,
          isZooming, dragStart, lastTouchDistance, zoomTimeout, dragTimeout,
          adjustmentTimeout, restoreTimers, transition, rendered, mounted, listening,
          frameUpdates, ev, prev, drag, steps>>

-----------------------------------------------------------------------------
(* Bounds of the model *)

\* input events per behaviour
MaxSteps == 3
\* largest denominator of a coordinate or scale on which a further zoom is explored
MaxDen == 600

-----------------------------------------------------------------------------
(* Exact rational arithmetic standing in for JavaScript numbers *)

\* no timer pending (a timeout ref that holds null or a timer that has fired)
NoTimer == -1

Abs(n) == IF n < 0 THEN -n ELSE n

RECURSIVE GCD(_, _)
GCD(a, b) == IF b = 0 THEN a ELSE GCD(b, a % b)

Norm(n, d) ==
    LET g == GCD(Abs(n), Abs(d))
        s == IF d < 0 THEN -1 ELSE 1
    IN  <<(s * n) \div g, (s * d) \div g>>

I(n) == <<n, 1>>
Q(n, d) == Norm(n, d)

\* the values that are not finite: a zero denominator stands for NaN (0/0),
\* Infinity (1/0) and -Infinity (-1/0)
NaN == <<0, 0>>
Infinity == <<1, 0>>
Finite(a) == a[2] # 0
Sign(n) == IF n < 0 THEN -1 ELSE IF n > 0 THEN 1 ELSE 0

RNeg(a) == <<-a[1], a[2]>>
RAdd(a, b) ==
    IF Finite(a) /\ Finite(b)
    THEN LET g == GCD(a[2], b[2])
         IN  Norm(a[1] * (b[2] \div g) + b[1] * (a[2] \div g), (a[2] \div g) * b[2])
    ELSE IF a = NaN \/ b = NaN THEN NaN
    ELSE IF ~Finite(a) /\ ~Finite(b) THEN (IF a = b THEN a ELSE NaN)
    ELSE IF Finite(a) THEN b ELSE a
RSub(a, b) == RAdd(a, RNeg(b))
RMul(a, b) ==
    IF Finite(a) /\ Finite(b)
    THEN LET g1 == GCD(Abs(a[1]), b[2])
             g2 == GCD(Abs(b[1]), a[2])
         IN  Norm((a[1] \div g1) * (b[1] \div g2), (a[2] \div g2) * (b[2] \div g1))
    ELSE <<Sign(a[1]) * Sign(b[1]), 0>>
\* x / 0 is Infinity or -Infinity by the sign of x, 0 / 0 is NaN
RDiv(a, b) ==
    IF Finite(a) /\ Finite(b)
    THEN IF b[1] = 0 THEN <<Sign(a[1]), 0>>
         ELSE RMul(a, IF b[1] < 0 THEN <<-b[2], -b[1]>> ELSE <<b[2], b[1]>>)
    ELSE IF a = NaN \/ b = NaN \/ (~Finite(a) /\ ~Finite(b)) THEN NaN
    ELSE IF Finite(a) THEN I(0)
    ELSE <<a[1] * (IF b[1] < 0 THEN -1 ELSE 1), 0>>
\* a comparison with NaN is false
RLt(a, b) ==
    IF Finite(a) /\ Finite(b)
    THEN LET g == GCD(a[2], b[2]) IN a[1] * (b[2] \div g) < b[1] * (a[2] \div g)
    ELSE a # NaN /\ b # NaN /\ a # b /\ (a = RNeg(Infinity) \/ b = Infinity)
RLe(a, b) ==
    IF Finite(a) /\ Finite(b)
    THEN LET g == GCD(a[2], b[2]) IN a[1] * (b[2] \div g) <= b[1] * (a[2] \div g)
    ELSE a # NaN /\ b # NaN /\ (a = b \/ a = RNeg(Infinity) \/ b = Infinity)
\* a !== b
RNe(a, b) == a # b \/ a = NaN
\* Math.min and Math.max: NaN when an argument is NaN
RMin(a, b) == IF a = NaN \/ b = NaN THEN NaN ELSE IF RLt(b, a) THEN b ELSE a
RMax(a, b) == IF a = NaN \/ b = NaN THEN NaN ELSE IF RLt(a, b) THEN b ELSE a
RAbs(a) == <<Abs(a[1]), a[2]>>

\* Number(x.toFixed(3)): the nearest multiple of 1/1000, a tie going to the
\* larger magnitude; NaN and the infinities come back as they are
Round3(r) ==
    IF ~Finite(r) THEN r
    ELSE LET m == Abs(r[1]) * 1000
             q == (2 * m + r[2]) \div (2 * r[2])
         IN  Norm((IF r[1] < 0 THEN -1 ELSE 1) * q, 1000)

\* lastTouchDistanceRef.current = null
NoDistance == <<-1, 1>>

Pt(x, y) == [x |-> x, y |-> y]
IPt(x, y) == [x |-> I(x), y |-> I(y)]

PAdd(a, b) == [x |-> RAdd(a.x, b.x), y |-> RAdd(a.y, b.y)]
PSub(a, b) == [x |-> RSub(a.x, b.x), y |-> RSub(a.y, b.y)]

-----------------------------------------------------------------------------
(* The host environment: layout of the viewport, the content and its elements *)

\* containerRef.current.getBoundingClientRect(): the viewport box
ContainerRect == [left |-> 10, top |-> 20, width |-> 200, height |-> 100]

\* layout size of the content box (max-content, padding included), untransformed
ContentSize == [width |-> 500, height |-> 100]

\* contentRef.current.getBoundingClientRect() under the rendered transform
\* translate(position) scale(scale), transform-origin 0 0
ContentRect(pos, scl) ==
    [left   |-> RAdd(I(ContainerRect.left), pos.x),
     top    |-> RAdd(I(ContainerRect.top), pos.y),
     width  |-> RMul(I(ContentSize.width), scl),
     height |-> RMul(I(ContentSize.height), scl)]

\* element.getBoundingClientRect() for a descendant of the content
ElementRect(el, pos, scl) ==
    [left   |-> RAdd(ContentRect(pos, scl).left, RMul(I(el.x), scl)),
     top    |-> RAdd(ContentRect(pos, scl).top, RMul(I(el.y), scl)),
     width  |-> RMul(I(el.w), scl),
     height |-> RMul(I(el.h), scl)]

-----------------------------------------------------------------------------
(* Props *)

DefaultProps ==
    [zoomSensitivity         |-> Q(1, 5),
     trackpadZoomSensitivity |-> Q(1, 20),
     excludePan              |-> {},
     constrainPan            |-> TRUE,
     minScale                |-> Q(1, 10),
     maxScale                |-> I(5),
     initialScale            |-> I(1),
     initialPosition         |-> IPt(0, 0)]

\* the configurations explored: the defaults, and an unconstrained view with a
\* narrow scale range from a third to 2, doubling wheel steps and a
\* pan-exclusion selector
Configs ==
    { DefaultProps,
      [DefaultProps EXCEPT !.constrainPan = FALSE, !.excludePan = {".no-pan"},
                           !.zoomSensitivity = I(1), !.trackpadZoomSensitivity = Q(1, 5),
                           !.minScale = Q(1, 3), !.maxScale = I(2)] }

-----------------------------------------------------------------------------
(* Pure helpers of SpatialView.tsx *)

calculateNewScale(currentScale, deltaY, sensitivity, minScale, maxScale) ==
    IF deltaY > 0
    THEN Round3(RMax(minScale, RSub(currentScale, RMul(sensitivity, currentScale))))
    ELSE Round3(RMin(maxScale, RAdd(currentScale, RMul(sensitivity, currentScale))))

calculateMousePosition(clientX, clientY, rect, currentPosition, scl) ==
    LET mouseX == RSub(clientX, I(rect.left))
        mouseY == RSub(clientY, I(rect.top))
    IN  [currentMouseX |-> RDiv(RSub(mouseX, currentPosition.x), scl),
         currentMouseY |-> RDiv(RSub(mouseY, currentPosition.y), scl)]

\* calculateZoomPosition as it would be with the anchor left unscaled
calculateZoomPositionUnscaled(mouseX, mouseY, currentMouseX, currentMouseY, newScale) ==
    [x |-> RSub(mouseX, currentMouseX), y |-> RSub(mouseY, currentMouseY)]

calculateZoomPosition(mouseX, mouseY, currentMouseX, currentMouseY, newScale) ==
    [x |-> RSub(mouseX, RMul(currentMouseX, newScale)),
     y |-> RSub(mouseY, RMul(currentMouseY, newScale))]

-----------------------------------------------------------------------------
(* Program constants *)

\* |deltaY| from which a pixel-mode wheel event counts as a mouse wheel tick
WheelThreshold == 25
\* idle time after which a wheel zoom / wheel pan is over (100 ms)
ZoomIdleTime == 1
DragIdleTime == 1
\* delay of the boundary settle and length of its snap-back transition (200 ms)
SettleDelay == 2
SnapRestoreDelay == 2
\* length of the jump transition (500 ms) and the jump's scale cap
JumpRestoreDelay == 5
JumpScaleCap == 5

-----------------------------------------------------------------------------
(* SpatialView: geometry *)

calculateBounds ==
    IF ~mounted THEN [present |-> FALSE]
    ELSE [present   |-> TRUE,
          container |-> ContainerRect,
          content   |-> LET content == ContentRect(rendered.position, rendered.scale)
                        IN  [width  |-> RDiv(content.width, scaleRef),
                             height |-> RDiv(content.height, scaleRef)]]

\* one axis of constrainPosition as it would be without the clamp
constrainAxisUnclamped(p, containerSize, contentSize, scl) ==
    LET room == RSub(I(containerSize), RMul(contentSize, scl))
    IN  IF RLe(RMul(contentSize, scl), I(containerSize))
        THEN RDiv(room, I(2))
        ELSE p

\* one axis of constrainPosition as it would be if the clamp moved the
\* position only half of the way to the range
constrainAxisHalfway(p, containerSize, contentSize, scl) ==
    LET room == RSub(I(containerSize), RMul(contentSize, scl))
        minP == RMin(I(0), room)
        maxP == RMax(I(0), room)
    IN  IF RLe(RMul(contentSize, scl), I(containerSize))
        THEN RDiv(room, I(2))
        ELSE RDiv(RAdd(p, RMin(maxP, RMax(minP, p))), I(2))

constrainAxis(p, containerSize, contentSize, scl) ==
    LET room == RSub(I(containerSize), RMul(contentSize, scl))
        minP == RMin(I(0), room)
        maxP == RMax(I(0), room)
    IN  IF RLe(RMul(contentSize, scl), I(containerSize))
        THEN RDiv(room, I(2))
        ELSE RMin(maxP, RMax(minP, p))

constrainPosition(pos, scl) ==
    LET bounds == calculateBounds
    IN  IF ~bounds.present \/ ~props.constrainPan THEN pos
        ELSE [x |-> constrainAxis(pos.x, bounds.container.width, bounds.content.width, scl),
              y |-> constrainAxis(pos.y, bounds.container.height, bounds.content.height, scl)]

-----------------------------------------------------------------------------
(* SpatialView: rendering and effects *)

\* style.transition as React writes it: only when the value computed by
\* contentStyle differs from the one of the previous render
contentStyleTransition(dragging, moving, current) ==
    IF (isDragging \/ isMoving) = (dragging \/ moving) THEN current
    ELSE IF dragging \/ moving THEN "none" ELSE "normal"

\* the effect on [isZooming, constrainPan, ...]: its cleanup clears the settle
\* timer, its body arms a new one unless zooming or unconstrained
settleEffect(zooming) ==
    IF zooming = isZooming THEN adjustmentTimeout
    ELSE IF ~zooming /\ props.constrainPan THEN SettleDelay ELSE NoTimer

\* a useState setter: React drops the update once the component is unmounted
setState(value, current) == IF mounted THEN value ELSE current

updatePosition(newPosition) ==
    positionRef' = newPosition /\ position' = setState(newPosition, position)
updateScale(newScale) ==
    scaleRef' = newScale /\ scale' = setState(newScale, scale)

\* pending restore timers, kept ordered by the time they have left
RECURSIVE Insert(_, _)
Insert(timer, timers) ==
    IF timers = <<>> THEN <<timer>>
    ELSE IF timer.left < Head(timers).left THEN <<timer>> \o timers
    ELSE <<Head(timers)>> \o Insert(timer, Tail(timers))

\* the setTimeout of the settle's snap-back, and the one of jumpToElement
SnapRestore == [left |-> SnapRestoreDelay, jump |-> FALSE]
JumpRestore == [left |-> JumpRestoreDelay, jump |-> TRUE]

Den(r) == r[2]
Precise(pos, scl) == Den(pos.x) <= MaxDen /\ Den(pos.y) <= MaxDen /\ Den(scl) <= MaxDen

Snapshot == [scale |-> scaleRef, position |-> positionRef]

\* the re-render writes translate(position) scale(scale) to style.transform; a
\* value with a NaN in it is not valid CSS, and the box keeps the transform it had
Paint ==
    IF Finite(scale') /\ Finite(position'.x) /\ Finite(position'.y)
    THEN [position |-> position', scale |-> scale']
    ELSE rendered

-----------------------------------------------------------------------------
(* Initial state: the component as mounted *)

\* the first render of a view with the given props
mount ==
    /\ scale = props.initialScale
    /\ position = props.initialPosition
    /\ scaleRef = props.initialScale
    /\ positionRef = props.initialPosition
    /\ isDragging = FALSE
    /\ isMoving = FALSE
    /\ isZooming = FALSE
    /\ dragStart = IPt(0, 0)
    /\ lastTouchDistance = NoDistance
    /\ zoomTimeout = NoTimer
    /\ dragTimeout = NoTimer
    /\ adjustmentTimeout = IF props.constrainPan THEN SettleDelay ELSE NoTimer
    /\ restoreTimers = <<>>
    /\ transition = "normal"
    /\ rendered = [position |-> props.initialPosition, scale |-> props.initialScale]
    /\ mounted = TRUE
    /\ listening = TRUE
    /\ frameUpdates = 0
    /\ ev = [op |-> "mount"]
    /\ prev = [scale |-> props.initialScale, position |-> props.initialPosition]
    /\ drag = [set |-> FALSE]
    /\ steps = 0

Init == props \in Configs /\ mount

-----------------------------------------------------------------------------
(* Wheel *)

Wheel(ctrlKey, deltaMode, deltaX, deltaY, clientX, clientY) ==
    [ctrlKey |-> ctrlKey, deltaMode |-> deltaMode, deltaX |-> deltaX, deltaY |-> deltaY,
     clientX |-> clientX, clientY |-> clientY]

\* the wheel events explored: deltaMode 0 is DOM_DELTA_PIXEL, 1 is DOM_DELTA_LINE
WheelEvents ==
    { Wheel(TRUE,  0,  0, -30, 110, 120),   \* ctrl + wheel tick up
      Wheel(TRUE,  0,  0,  30, 110, 120),   \* ctrl + wheel tick down
      Wheel(TRUE,  0,  0,   0,  60,  40),   \* ctrl + pinch on a trackpad, no vertical delta
      Wheel(TRUE,  1,  0,  10,  60,  40),   \* ctrl + small delta in line mode
      Wheel(TRUE,  0, 10, -30, 110, 120),   \* ctrl + wheel with a horizontal component
      Wheel(FALSE, 0,  0,  30, 110, 120),   \* plain mouse wheel tick
      Wheel(FALSE, 0, 10,  10,  60,  40) }  \* two-finger scroll on a trackpad

isPanGesture(e) == Abs(e.deltaX) > 0 \/ (~e.ctrlKey /\ e.deltaMode = 0)
isMouseWheel(e) == e.deltaMode = 0 /\ Abs(e.deltaY) >= WheelThreshold
isZoomGesture(e) == (e.ctrlKey \/ isMouseWheel(e)) /\ ~isPanGesture(e)

handleWheel(e) ==
    /\ listening
    /\ steps < MaxSteps
    /\ steps' = steps + 1
    /\ prev' = Snapshot
    /\ frameUpdates' = IF mounted THEN frameUpdates + 1 ELSE frameUpdates
    /\ IF isZoomGesture(e) /\ ~mounted
       THEN \* clearTimeout and setIsZooming(true) come before `if (!container) return`
            /\ zoomTimeout' = NoTimer
            /\ ev' = [op |-> "wheelZoomNoContainer", e |-> e]
            /\ UNCHANGED <<scale, position, scaleRef, positionRef, isZooming, isMoving,
                           dragTimeout, adjustmentTimeout, transition>>
       ELSE IF isZoomGesture(e)
       THEN /\ Precise(positionRef, scaleRef)
            /\ LET rect == ContainerRect
                   m == calculateMousePosition(I(e.clientX), I(e.clientY), rect,
                                               positionRef, scaleRef)
                   sensitivity == IF isMouseWheel(e) THEN props.zoomSensitivity
                                  ELSE props.trackpadZoomSensitivity
                   newScale == calculateNewScale(scaleRef, e.deltaY, sensitivity,
                                                 props.minScale, props.maxScale)
                   mouseX == RSub(I(e.clientX), I(rect.left))
                   mouseY == RSub(I(e.clientY), I(rect.top))
                   newPosition == calculateZoomPosition(mouseX, mouseY, m.currentMouseX,
                                                        m.currentMouseY, newScale)
               IN  updatePosition(newPosition) /\ updateScale(newScale)
            /\ isZooming' = TRUE
            /\ zoomTimeout' = ZoomIdleTime
            /\ adjustmentTimeout' = settleEffect(TRUE)
            /\ ev' = [op |-> "wheelZoom", e |-> e]
            /\ UNCHANGED <<isMoving, dragTimeout, transition>>
       ELSE /\ LET newPosition == [x |-> RSub(positionRef.x, I(e.deltaX)),
                                   y |-> RSub(positionRef.y, I(e.deltaY))]
               IN  updatePosition(constrainPosition(newPosition, scaleRef))
            /\ isMoving' = setState(TRUE, isMoving)
            /\ dragTimeout' = DragIdleTime
            /\ transition' = IF mounted
                             THEN contentStyleTransition(isDragging, TRUE, transition)
                             ELSE transition
            /\ ev' = [op |-> "wheelPan", e |-> e]
            /\ UNCHANGED <<scale, scaleRef, isZooming, zoomTimeout, adjustmentTimeout>>
    /\ UNCHANGED <<props, isDragging, dragStart, lastTouchDistance, restoreTimers,
                   mounted, listening, drag>>
    /\ rendered' = Paint

-----------------------------------------------------------------------------
(* Mouse drag *)

\* pointer positions (clientX, clientY) of mouse and single-touch events
Pointers == { [x |-> 110, y |-> 120], [x |-> 60, y |-> 40] }
\* where the mouse button goes down / the first finger lands
DownPointers == { [x |-> 60, y |-> 40] }

\* what target.closest(selector) finds: the selectors the event target matches
\* (a target matching none, and one target per configured selector)
Targets == { {} } \cup { {selector} : selector \in props.excludePan }

\* isPanDisabled as it would be if excludePan were never consulted
isPanDisabledNever(target) == FALSE

isPanDisabled(target) == \E selector \in props.excludePan : selector \in target

\* the last operation was a mouse-down or touch-start on a target inside an
\* element that excludePan names, or a move without effect following one
AfterExcludedStart ==
    \/ /\ ev.op \in {"mouseDown", "mouseDownExcluded", "touchStart",
                      "touchStartExcluded", "pinchStart"}
       /\ ev.target \cap props.excludePan # {}
    \/ /\ ev.op \in {"mouseMoveIdle", "touchMoveIdle"}
       /\ ev.excluded

\* dragStart.current as handleMouseDown / handleTouchStart compute it
dragOffset(p, currentPosition) ==
    [x |-> RSub(I(p.x), currentPosition.x), y |-> RSub(I(p.y), currentPosition.y)]

\* the move's position as it would be with the offset added instead
dragPositionOffsetAdded(p, start) ==
    [x |-> RAdd(I(p.x), start.x), y |-> RAdd(I(p.y), start.y)]

\* the position handleMouseMove / handleTouchMove derive from the pointer
dragPosition(p, start) ==
    [x |-> RSub(I(p.x), start.x), y |-> RSub(I(p.y), start.y)]

handleMouseDown(p, target) ==
    /\ mounted
    /\ steps < MaxSteps
    /\ steps' = steps + 1
    /\ prev' = Snapshot
    /\ IF isPanDisabled(target)
       THEN /\ ev' = [op |-> "mouseDownExcluded", p |-> p, target |-> target]
            /\ UNCHANGED <<isDragging, dragStart, drag, transition>>
       ELSE /\ isDragging' = TRUE
            /\ dragStart' = dragOffset(p, positionRef)
            /\ drag' = [set |-> TRUE, p |-> p, position |-> positionRef, scale |-> scaleRef]
            /\ transition' = contentStyleTransition(TRUE, isMoving, transition)
            /\ ev' = [op |-> "mouseDown", p |-> p, target |-> target]
    /\ UNCHANGED <<props, scale, position, scaleRef, positionRef, isMoving, isZooming,
                   lastTouchDistance, zoomTimeout, dragTimeout, adjustmentTimeout,
                   restoreTimers, mounted, listening, frameUpdates>>
    /\ rendered' = Paint

handleMouseMove(p) ==
    /\ mounted
    /\ steps < MaxSteps
    /\ steps' = steps + 1
    /\ prev' = Snapshot
    /\ IF ~isDragging
       THEN /\ ev' = [op |-> "mouseMoveIdle", p |-> p, excluded |-> AfterExcludedStart]
            /\ UNCHANGED <<position, positionRef>>
       ELSE /\ LET newPosition == dragPosition(p, dragStart)
                   adjustedPosition == IF isZooming THEN newPosition
                                       ELSE constrainPosition(newPosition, scaleRef)
               IN  updatePosition(adjustedPosition)
            /\ ev' = [op |-> "mouseMove", p |-> p, zooming |-> isZooming]
    /\ UNCHANGED <<props, scale, scaleRef, isDragging, isMoving, isZooming, dragStart,
                   lastTouchDistance, zoomTimeout, dragTimeout, adjustmentTimeout,
                   restoreTimers, transition, mounted, listening, frameUpdates, drag>>
    /\ rendered' = Paint

\* onMouseUp and onMouseLeave
handleMouseUp ==
    /\ mounted
    /\ steps < MaxSteps
    /\ steps' = steps + 1
    /\ prev' = Snapshot
    /\ isDragging' = FALSE
    /\ transition' = contentStyleTransition(FALSE, isMoving, transition)
    /\ ev' = [op |-> "mouseUp"]
    /\ UNCHANGED <<props, scale, position, scaleRef, positionRef, isMoving, isZooming,
                   dragStart, lastTouchDistance, zoomTimeout, dragTimeout,
                   adjustmentTimeout, restoreTimers, mounted, listening, frameUpdates, drag>>
    /\ rendered' = Paint

-----------------------------------------------------------------------------
(* Touch *)

\* Math.hypot, exact on the touch pairs explored (all at whole-pixel distances):
\* the integer square root of dx^2 + dy^2 by bisection
RECURSIVE Root(_, _, _)
Root(n, lo, hi) ==
    IF lo >= hi THEN lo
    ELSE LET mid == (lo + hi + 1) \div 2
         IN  IF mid * mid <= n THEN Root(n, mid, hi) ELSE Root(n, lo, mid - 1)
Hypot(dx, dy) == Root(dx * dx + dy * dy, 0, Abs(dx) + Abs(dy))

\* e.touches of the touch events explored: single touches, two pairs that are
\* 100 px and 150 px apart, and a pair of touches at one and the same point
TouchStartLists ==
    { << [x |-> 60, y |-> 40] >>,
      << [x |-> 60, y |-> 120], [x |-> 160, y |-> 120] >>,
      << [x |-> 110, y |-> 120], [x |-> 110, y |-> 120] >> }
TouchMoveLists ==
    { << [x |-> 110, y |-> 120] >>,
      << [x |-> 60, y |-> 120], [x |-> 160, y |-> 120] >>,
      << [x |-> 50, y |-> 40], [x |-> 170, y |-> 130] >>,
      << [x |-> 110, y |-> 120], [x |-> 110, y |-> 120] >> }

touchDistance(touches) ==
    I(Hypot(touches[1].x - touches[2].x, touches[1].y - touches[2].y))

handleTouchStart(touches, target) ==
    /\ listening
    /\ steps < MaxSteps
    /\ steps' = steps + 1
    /\ prev' = Snapshot
    /\ IF isPanDisabled(target)
       THEN /\ ev' = [op |-> "touchStartExcluded", touches |-> touches, target |-> target]
            /\ UNCHANGED <<isDragging, dragStart, drag, transition, lastTouchDistance,
                           isZooming, adjustmentTimeout>>
       ELSE IF Len(touches) = 1
       THEN /\ isDragging' = setState(TRUE, isDragging)
            /\ dragStart' = dragOffset(touches[1], positionRef)
            /\ drag' = [set |-> TRUE, p |-> touches[1], position |-> positionRef,
                        scale |-> scaleRef]
            /\ transition' = IF mounted
                             THEN contentStyleTransition(TRUE, isMoving, transition)
                             ELSE transition
            /\ ev' = [op |-> "touchStart", touches |-> touches, target |-> target]
            /\ UNCHANGED <<lastTouchDistance, isZooming, adjustmentTimeout>>
       ELSE /\ Len(touches) = 2
            /\ lastTouchDistance' = touchDistance(touches)
            /\ isZooming' = setState(TRUE, isZooming)
            /\ adjustmentTimeout' = IF mounted THEN settleEffect(TRUE) ELSE adjustmentTimeout
            /\ ev' = [op |-> "pinchStart", touches |-> touches, target |-> target]
            /\ UNCHANGED <<isDragging, dragStart, drag, transition>>
    /\ UNCHANGED <<props, scale, position, scaleRef, positionRef, isMoving, zoomTimeout,
                   dragTimeout, restoreTimers, mounted, listening, frameUpdates>>
    /\ rendered' = Paint

handleTouchMove(touches) ==
    /\ listening
    /\ steps < MaxSteps
    /\ steps' = steps + 1
    /\ prev' = Snapshot
    /\ IF Len(touches) = 1 /\ isDragging
       THEN /\ LET newPosition == dragPosition(touches[1], dragStart)
                   adjustedPosition == IF isZooming THEN newPosition
                                       ELSE constrainPosition(newPosition, scaleRef)
               IN  updatePosition(adjustedPosition)
            /\ ev' = [op |-> "touchMove", p |-> touches[1], zooming |-> isZooming]
            /\ UNCHANGED <<scale, scaleRef, lastTouchDistance>>
       ELSE IF Len(touches) = 2 /\ lastTouchDistance # NoDistance /\ ~mounted
       THEN /\ ev' = [op |-> "pinchMoveNoContainer", touches |-> touches]
            /\ UNCHANGED <<scale, position, scaleRef, positionRef, lastTouchDistance>>
       ELSE IF Len(touches) = 2 /\ lastTouchDistance # NoDistance
       THEN /\ Precise(positionRef, scaleRef)
            /\ LET newDistance == touchDistance(touches)
                   rect == ContainerRect
                   centerX == RDiv(I(touches[1].x + touches[2].x), I(2))
                   centerY == RDiv(I(touches[1].y + touches[2].y), I(2))
                   m == calculateMousePosition(centerX, centerY, rect, positionRef, scaleRef)
                   scaleFactor == RDiv(newDistance, lastTouchDistance)
                   newScale == Round3(RMin(props.maxScale,
                                   RMax(props.minScale, RMul(scaleRef, scaleFactor))))
                   mouseX == RSub(centerX, I(rect.left))
                   mouseY == RSub(centerY, I(rect.top))
                   newPosition == calculateZoomPosition(mouseX, mouseY, m.currentMouseX,
                                                        m.currentMouseY, newScale)
               IN  /\ updatePosition(newPosition)
                   /\ updateScale(newScale)
                   /\ lastTouchDistance' = newDistance
            /\ ev' = [op |-> "pinchMove", touches |-> touches,
                      lastDistance |-> lastTouchDistance]
       ELSE /\ ev' = [op |-> "touchMoveIdle", touches |-> touches,
                       excluded |-> AfterExcludedStart]
            /\ UNCHANGED <<scale, position, scaleRef, positionRef, lastTouchDistance>>
    /\ UNCHANGED <<props, isDragging, isMoving, isZooming, dragStart, zoomTimeout,
                   dragTimeout, adjustmentTimeout, restoreTimers, transition, mounted, listening,
                   frameUpdates, drag>>
    /\ rendered' = Paint

\* touchend and touchcancel
handleTouchEnd ==
    /\ listening
    /\ steps < MaxSteps
    /\ steps' = steps + 1
    /\ prev' = Snapshot
    /\ isDragging' = setState(FALSE, isDragging)
    /\ isZooming' = setState(FALSE, isZooming)
    /\ lastTouchDistance' = NoDistance
    /\ adjustmentTimeout' = IF mounted THEN settleEffect(FALSE) ELSE adjustmentTimeout
    /\ transition' = IF mounted THEN contentStyleTransition(FALSE, isMoving, transition)
                     ELSE transition
    /\ ev' = [op |-> "touchEnd"]
    /\ UNCHANGED <<props, scale, position, scaleRef, positionRef, isMoving, dragStart,
                   zoomTimeout, dragTimeout, restoreTimers, mounted, listening, frameUpdates, drag>>
    /\ rendered' = Paint

-----------------------------------------------------------------------------
(* The context and the useSpatialView hook *)

\* the default value given to createContext
SpatialViewContext == "defaultContext"

\* React's useContext: the value of the nearest provider, else the default
useContext(inProvider) == IF inProvider THEN "providerValue" ELSE SpatialViewContext

\* a component calls the hook, inside or outside a SpatialViewProvider
useSpatialView(inProvider) ==
    /\ steps < MaxSteps
    /\ steps' = steps + 1
    /\ LET context == useContext(inProvider)
       IN  ev' = [op |-> "useSpatialView", inProvider |-> inProvider,
                  threw |-> (context = "undefined"), context |-> context]
    /\ UNCHANGED <<props, scale, position, scaleRef, positionRef, isDragging, isMoving,
                   isZooming, dragStart, lastTouchDistance, zoomTimeout, dragTimeout,
                   adjustmentTimeout, restoreTimers, transition, mounted, listening, frameUpdates,
                   prev, drag>>
    /\ rendered' = Paint

\* (element, options.padding) of the jumps explored
Jumps ==
    { [element |-> [x |-> 20, y |-> 10, w |-> 400, h |-> 40], padding |-> 40],
      [element |-> [x |-> 50, y |-> 20, w |->  20, h |-> 10], padding |-> 0] }

\* jumpToElement's computation as it would be with the padding counted once
jumpTargetSinglePadding(element, padding) ==
    LET containerRect == ContainerRect
        currentScale == rendered.scale
        elementRect == ElementRect(element, rendered.position, rendered.scale)
        originalWidth == RDiv(elementRect.width, currentScale)
        originalHeight == RDiv(elementRect.height, currentScale)
        scaleX == RDiv(I(containerRect.width - padding), originalWidth)
        scaleY == RDiv(I(containerRect.height - padding), originalHeight)
        newScale == RMin(RMin(scaleX, scaleY), I(JumpScaleCap))
        contentRect == ContentRect(rendered.position, rendered.scale)
        elementX == RDiv(RSub(elementRect.left, contentRect.left), currentScale)
        elementY == RDiv(RSub(elementRect.top, contentRect.top), currentScale)
        scaledWidth == RMul(originalWidth, newScale)
        scaledHeight == RMul(originalHeight, newScale)
        newX == RSub(RDiv(RSub(I(containerRect.width), scaledWidth), I(2)),
                     RMul(elementX, newScale))
        newY == RSub(RDiv(RSub(I(containerRect.height), scaledHeight), I(2)),
                     RMul(elementY, newScale))
    IN  [scale |-> newScale, position |-> [x |-> newX, y |-> newY]]

\* the scale and position jumpToElement computes from the rendered layout
jumpTarget(element, padding) ==
    LET containerRect == ContainerRect
        currentScale == rendered.scale   \* DOMMatrix(getComputedStyle(content).transform).a
        elementRect == ElementRect(element, rendered.position, rendered.scale)
        originalWidth == RDiv(elementRect.width, currentScale)
        originalHeight == RDiv(elementRect.height, currentScale)
        scaleX == RDiv(I(containerRect.width - padding * 2), originalWidth)
        scaleY == RDiv(I(containerRect.height - padding * 2), originalHeight)
        newScale == RMin(RMin(scaleX, scaleY), I(JumpScaleCap))
        contentRect == ContentRect(rendered.position, rendered.scale)
        elementX == RDiv(RSub(elementRect.left, contentRect.left), currentScale)
        elementY == RDiv(RSub(elementRect.top, contentRect.top), currentScale)
        scaledWidth == RMul(originalWidth, newScale)
        scaledHeight == RMul(originalHeight, newScale)
        newX == RSub(RDiv(RSub(I(containerRect.width), scaledWidth), I(2)),
                     RMul(elementX, newScale))
        newY == RSub(RDiv(RSub(I(containerRect.height), scaledHeight), I(2)),
                     RMul(elementY, newScale))
    IN  [scale |-> newScale, position |-> [x |-> newX, y |-> newY]]

jumpToElement(element, padding) ==
    /\ steps < MaxSteps
    /\ steps' = steps + 1
    /\ prev' = Snapshot
    /\ IF ~mounted
       THEN /\ ev' = [op |-> "jumpNoContainer", element |-> element, padding |-> padding]
            /\ UNCHANGED <<scale, position, scaleRef, positionRef, transition, restoreTimers>>
       ELSE /\ Precise(rendered.position, rendered.scale)
            /\ LET target == jumpTarget(element, padding)
               IN  /\ scaleRef' = target.scale
                   /\ scale' = target.scale
                   /\ positionRef' = target.position
                   /\ position' = target.position
            /\ transition' = "jump"
            /\ restoreTimers' = Insert(JumpRestore, restoreTimers)
            /\ ev' = [op |-> "jump", element |-> element, padding |-> padding]
    /\ UNCHANGED <<props, isDragging, isMoving, isZooming, dragStart, lastTouchDistance,
                   zoomTimeout, dragTimeout, adjustmentTimeout, mounted, listening, frameUpdates,
                   drag>>
    /\ rendered' = Paint

\* values handed to the setters the context exposes
SetScaleValues == { I(3) }
SetPositionValues == { IPt(-40, 30) }

\* contextValue.setScale: the state setter of useState
setScale(value) ==
    /\ mounted
    /\ steps < MaxSteps
    /\ steps' = steps + 1
    /\ prev' = Snapshot
    /\ scale' = value
    /\ ev' = [op |-> "setScale", value |-> value]
    /\ UNCHANGED <<props, position, scaleRef, positionRef, isDragging, isMoving,
                   isZooming, dragStart, lastTouchDistance, zoomTimeout, dragTimeout,
                   adjustmentTimeout, restoreTimers, transition, mounted, listening, frameUpdates,
                   drag>>
    /\ rendered' = Paint

\* contextValue.setPosition: the state setter of useState
setPosition(value) ==
    /\ mounted
    /\ steps < MaxSteps
    /\ steps' = steps + 1
    /\ prev' = Snapshot
    /\ position' = value
    /\ ev' = [op |-> "setPosition", value |-> value]
    /\ UNCHANGED <<props, scale, scaleRef, positionRef, isDragging, isMoving,
                   isZooming, dragStart, lastTouchDistance, zoomTimeout, dragTimeout,
                   adjustmentTimeout, restoreTimers, transition, mounted, listening, frameUpdates,
                   drag>>
    /\ rendered' = Paint

\* the component unmounts: React detaches the refs when it commits the removal
Unmount ==
    /\ mounted
    /\ steps < MaxSteps
    /\ steps' = steps + 1
    /\ prev' = Snapshot
    /\ mounted' = FALSE
    /\ ev' = [op |-> "unmount"]
    /\ UNCHANGED <<props, scale, position, scaleRef, positionRef, isDragging, isMoving,
                   isZooming, dragStart, lastTouchDistance, zoomTimeout, dragTimeout,
                   adjustmentTimeout, restoreTimers, transition, listening,
                   frameUpdates, drag>>
    /\ rendered' = Paint

\* the effect cleanups that follow the removal: the listeners are removed and
\* the settle timer is cleared
Cleanup ==
    /\ ~mounted
    /\ listening
    /\ listening' = FALSE
    /\ adjustmentTimeout' = NoTimer
    /\ UNCHANGED <<props, scale, position, scaleRef, positionRef, isDragging, isMoving,
                   isZooming, dragStart, lastTouchDistance, zoomTimeout, dragTimeout,
                   restoreTimers, transition, mounted, frameUpdates, ev, prev, drag,
                   steps>>
    /\ rendered' = Paint

-----------------------------------------------------------------------------
(* Timers and time *)

\* the callback of zoomTimeoutRef: setIsZooming(false)
zoomTimeoutFires ==
    /\ zoomTimeout = 0
    /\ zoomTimeout' = NoTimer
    /\ isZooming' = setState(FALSE, isZooming)
    /\ adjustmentTimeout' = IF mounted THEN settleEffect(FALSE) ELSE adjustmentTimeout
    /\ UNCHANGED <<props, scale, position, scaleRef, positionRef, isDragging, isMoving,
                   dragStart, lastTouchDistance, dragTimeout, restoreTimers, transition,
                   mounted, listening, frameUpdates, ev, prev, drag, steps>>
    /\ rendered' = Paint

\* the callback of dragTimeoutRef: setIsMoving(false)
dragTimeoutFires ==
    /\ dragTimeout = 0
    /\ dragTimeout' = NoTimer
    /\ isMoving' = setState(FALSE, isMoving)
    /\ transition' = IF mounted THEN contentStyleTransition(isDragging, FALSE, transition)
                     ELSE transition
    /\ UNCHANGED <<props, scale, position, scaleRef, positionRef, isDragging, isZooming,
                   dragStart, lastTouchDistance, zoomTimeout, adjustmentTimeout,
                   restoreTimers, mounted, listening, frameUpdates, ev, prev, drag, steps>>
    /\ rendered' = Paint

\* the callback of adjustmentTimeoutRef: the boundary settle
adjustmentTimeoutFires ==
    /\ adjustmentTimeout = 0
    /\ adjustmentTimeout' = NoTimer
    /\ LET adjustedPosition == constrainPosition(positionRef, scaleRef)
           isPositionChanged == RNe(positionRef.x, adjustedPosition.x)
                                \/ RNe(positionRef.y, adjustedPosition.y)
       IN  /\ updatePosition(adjustedPosition)
           /\ IF mounted /\ isPositionChanged
              THEN /\ transition' = "snap"
                   /\ restoreTimers' = Insert(SnapRestore, restoreTimers)
              ELSE UNCHANGED <<transition, restoreTimers>>
    /\ ev' = [op |-> "settle"]
    /\ prev' = Snapshot
    /\ UNCHANGED <<props, scale, scaleRef, isDragging, isMoving, isZooming, dragStart,
                   lastTouchDistance, zoomTimeout, dragTimeout, mounted, listening, frameUpdates,
                   drag, steps>>
    /\ rendered' = Paint

RestoreDue == restoreTimers # <<>> /\ Head(restoreTimers).left = 0

\* the callback of a restore timer: style.transition = `transform ${zoomDuration}ms`
restoreTimerFires ==
    /\ RestoreDue
    /\ restoreTimers' = Tail(restoreTimers)
    /\ transition' = IF mounted \/ Head(restoreTimers).jump THEN "normal" ELSE transition
    /\ UNCHANGED <<props, scale, position, scaleRef, positionRef, isDragging, isMoving,
                   isZooming, dragStart, lastTouchDistance, zoomTimeout, dragTimeout,
                   adjustmentTimeout, mounted, listening, frameUpdates, ev, prev, drag, steps>>
    /\ rendered' = Paint

Pending(t) == t # NoTimer
Due(t) == t = 0
\* a clock that does not run down the timers
ElapseNever(t) == t

Elapse(t) == IF t = NoTimer THEN NoTimer ELSE t - 1

AnyPending ==
    Pending(zoomTimeout) \/ Pending(dragTimeout) \/ Pending(adjustmentTimeout)
    \/ restoreTimers # <<>>
AnyDue == Due(zoomTimeout) \/ Due(dragTimeout) \/ Due(adjustmentTimeout) \/ RestoreDue

\* 100 ms pass, and with them at least one animation frame; no timer that is
\* due has been left unfired and no effect cleanup is outstanding
timePasses ==
    /\ mounted \/ ~listening
    /\ AnyPending
    /\ ~AnyDue
    /\ zoomTimeout' = Elapse(zoomTimeout)
    /\ dragTimeout' = Elapse(dragTimeout)
    /\ adjustmentTimeout' = Elapse(adjustmentTimeout)
    /\ restoreTimers' = [i \in DOMAIN restoreTimers |->
                            [restoreTimers[i] EXCEPT !.left = @ - 1]]
    /\ frameUpdates' = 0
    /\ UNCHANGED <<props, scale, position, scaleRef, positionRef, isDragging, isMoving,
                   isZooming, dragStart, lastTouchDistance, transition, mounted, listening, ev,
                   prev, drag, steps>>
    /\ rendered' = Paint

\* time is followed up to the last input event explored
Tick == steps < MaxSteps /\ timePasses

-----------------------------------------------------------------------------

Next ==
    \/ \E e \in WheelEvents : handleWheel(e)
    \/ \E p \in DownPointers, target \in Targets : handleMouseDown(p, target)
    \/ \E p \in Pointers : handleMouseMove(p)
    \/ handleMouseUp
    \/ \E touches \in TouchStartLists, target \in Targets : handleTouchStart(touches, target)
    \/ \E touches \in TouchMoveLists : handleTouchMove(touches)
    \/ handleTouchEnd
    \/ \E j \in Jumps : jumpToElement(j.element, j.padding)
    \/ \E value \in SetScaleValues : setScale(value)
    \/ \E value \in SetPositionValues : setPosition(value)
    \/ \E inProvider \in BOOLEAN : useSpatialView(inProvider)
    \/ Unmount
    \/ Cleanup
    \/ zoomTimeoutFires
    \/ dragTimeoutFires
    \/ adjustmentTimeoutFires
    \/ restoreTimerFires
    \/ Tick

Spec == Init /\ [][Next]_vars

\* the view driven by wheel events alone
NextWheel ==
    \/ \E e \in WheelEvents : handleWheel(e)
    \/ zoomTimeoutFires
    \/ dragTimeoutFires
    \/ adjustmentTimeoutFires
    \/ restoreTimerFires
    \/ Tick

SpecWheel == Init /\ [][NextWheel]_vars

\* initialPosition and initialScale props explored for constrainPosition, the
\* constraint enabled: positions left of, inside and right of the range the
\* constraint allows, at a scale where the content fits the viewport on both
\* axes and at one where it is wider than the viewport (zooming in from there
\* makes it higher too)
ProbePositions == { IPt(-400, -40), IPt(-150, 20), IPt(30, 60) }
ProbeScales == { Q(3, 10), I(1) }
ProbeConfigs ==
    { [DefaultProps EXCEPT !.initialPosition = p, !.initialScale = s] :
        p \in ProbePositions, s \in ProbeScales }

InitProbe == props \in ProbeConfigs /\ mount

\* the view mounted at any of those positions and scales, with the inputs that
\* arm the settle timer: wheel events and two-finger touches put down and lifted
NextSettle ==
    \/ \E e \in WheelEvents : handleWheel(e)
    \/ \E touches \in TouchStartLists, target \in Targets : handleTouchStart(touches, target)
    \/ handleTouchEnd
    \/ zoomTimeoutFires
    \/ dragTimeoutFires
    \/ adjustmentTimeoutFires
    \/ restoreTimerFires
    \/ Tick

SpecSettle == InitProbe /\ [][NextSettle]_vars

\* the mounted view under wheel, mouse and touch input, with time running on
\* after the last input: the browser runs the callback of an idle timer or a
\* restore timer once it is due, and time does not stop.  (That the settle
\* timer's callback runs as well is a hypothesis of the formulas that need it.)
NextIdle ==
    \/ \E e \in WheelEvents : handleWheel(e)
    \/ \E p \in DownPointers, target \in Targets : handleMouseDown(p, target)
    \/ \E p \in Pointers : handleMouseMove(p)
    \/ handleMouseUp
    \/ \E touches \in TouchStartLists, target \in Targets : handleTouchStart(touches, target)
    \/ \E touches \in TouchMoveLists : handleTouchMove(touches)
    \/ handleTouchEnd
    \/ zoomTimeoutFires
    \/ dragTimeoutFires
    \/ adjustmentTimeoutFires
    \/ restoreTimerFires
    \/ timePasses

SpecIdle ==
    /\ Init
    /\ [][NextIdle]_vars
    /\ WF_vars(zoomTimeoutFires)
    /\ WF_vars(dragTimeoutFires)
    /\ WF_vars(restoreTimerFires)
    /\ WF_vars(timePasses)

-----------------------------------------------------------------------------
(* Properties *)

InRange(s) == RLe(props.minScale, s) /\ RLe(s, props.maxScale)

Clamp(v, lo, hi) == RMin(hi, RMax(lo, v))

\* the cursor of a wheel event relative to the viewport
CursorOf(e) ==
    [x |-> I(e.clientX - ContainerRect.left), y |-> I(e.clientY - ContainerRect.top)]

\* the content point that (oldPos, oldScale) shows at screen point c is shown
\* at c by (newPos, newScale) too: c = point * newScale + newPos
AnchorFixed(c, oldPos, oldScale, newPos, newScale) ==
    /\ RSub(c.x, newPos.x) = RMul(RDiv(RSub(c.x, oldPos.x), oldScale), newScale)
    /\ RSub(c.y, newPos.y) = RMul(RDiv(RSub(c.y, oldPos.y), oldScale), newScale)

\* the last operation found numbers in scaleRef and positionRef
NumericBefore ==
    Finite(prev.scale) /\ Finite(prev.position.x) /\ Finite(prev.position.y)

\* C1: driven by wheel events alone (zoom and pan, any deltaY, either
\* sensitivity) from an initial scale within [minScale, maxScale], the scale
\* state and scaleRef are always within [minScale, maxScale].
ScaleBoundedUnderWheel == InRange(scale) /\ InRange(scaleRef)

\* C2: minScale <= scale <= maxScale in every reachable state, whichever
\* operation updated the scale (wheel, pinch, jumpToElement, setScale).
ScaleInvariant ==
    /\ RLe(props.minScale, scale) /\ RLe(scale, props.maxScale)
    /\ RLe(props.minScale, scaleRef) /\ RLe(scaleRef, props.maxScale)

\* C3: after every wheel zoom step (on a numeric scale and position) the
\* content point that was under the cursor is still under the cursor, the
\* anchor taken from the event's cursor and the position and scale the step
\* found; cursor (100,100), scale 1 to 2 and position (0,0) give position
\* (-100,-100).
WheelZoomKeepsCursorPoint ==
    (ev.op = "wheelZoom" /\ NumericBefore) =>
        /\ AnchorFixed(CursorOf(ev.e), prev.position, prev.scale, positionRef, scaleRef)
        /\ position = positionRef
        /\ scale = scaleRef
        /\ (/\ CursorOf(ev.e) = IPt(100, 100)
            /\ prev.scale = I(1) /\ prev.position = IPt(0, 0)
            /\ scaleRef = I(2)) => positionRef = IPt(-100, -100)

\* the example: a wheel zoom at cursor (100,100) from scale 1, position (0,0)
\* to scale 2
WheelZoomExample ==
    /\ ev.op = "wheelZoom"
    /\ CursorOf(ev.e) = IPt(100, 100)
    /\ prev.scale = I(1) /\ prev.position = IPt(0, 0)
    /\ scaleRef = I(2)
    /\ positionRef = IPt(-100, -100)

\* C4: a wheel zoom step with deltaY < 0 yields current + sensitivity*current,
\* one with deltaY > 0 yields current - sensitivity*current, clamped to
\* [minScale, maxScale] and rounded to 3 decimals.
WheelZoomScaleClamped ==
    (ev.op = "wheelZoom" /\ ev.e.deltaY # 0) =>
        LET sensitivity == IF isMouseWheel(ev.e) THEN props.zoomSensitivity
                           ELSE props.trackpadZoomSensitivity
            change == RMul(sensitivity, prev.scale)
            raw == IF ev.e.deltaY < 0 THEN RAdd(prev.scale, change)
                   ELSE RSub(prev.scale, change)
        IN  scaleRef = Round3(Clamp(raw, props.minScale, props.maxScale))

\* C5: a wheel event with the control key is handled as a zoom; without it,
\* deltaX = 0 and |deltaY| >= 25 is a zoom, and a horizontal component or a
\* smaller |deltaY| is a pan.
WheelClassifiedAsSpecified ==
    ev.op \in {"wheelZoom", "wheelPan"} =>
        /\ ev.e.ctrlKey => ev.op = "wheelZoom"
        /\ (~ev.e.ctrlKey /\ ev.e.deltaX = 0 /\ Abs(ev.e.deltaY) >= WheelThreshold)
              => ev.op = "wheelZoom"
        /\ (~ev.e.ctrlKey /\ (ev.e.deltaX # 0 \/ Abs(ev.e.deltaY) < WheelThreshold))
              => ev.op = "wheelPan"

\* the last operation was a move of a drag in progress on the mounted view,
\* a drag that started from a numeric position
DragMoved ==
    /\ mounted
    /\ ev.op \in {"mouseMove", "touchMove"}
    /\ drag.set
    /\ Finite(dragStart.x) /\ Finite(dragStart.y)

\* C6: with the boundary constraint disabled, a move of a drag that started at
\* pointer p0 to pointer p leaves the position at the position the drag
\* started from plus exactly p - p0, however many moves the drag has seen.
PanOffsetLaw ==
    (~props.constrainPan /\ DragMoved) =>
        /\ positionRef = PAdd(drag.position, PSub(IPt(ev.p.x, ev.p.y),
                                                  IPt(drag.p.x, drag.p.y)))
        /\ position = positionRef

\* a second move of the same drag to the same pointer: the first one had
\* already displaced the content, the second one did not add to it
PanSecondMoveNotAccumulated ==
    /\ ~props.constrainPan
    /\ DragMoved
    /\ ev.p # drag.p
    /\ prev.position # drag.position
    /\ prev.position = positionRef
    /\ positionRef = PAdd(drag.position, PSub(IPt(ev.p.x, ev.p.y),
                                              IPt(drag.p.x, drag.p.y)))

\* the position that operation handed to constrainPosition
ConstrainedArg ==
    IF ev.op = "wheelPan"
    THEN [x |-> RSub(prev.position.x, I(ev.e.deltaX)),
          y |-> RSub(prev.position.y, I(ev.e.deltaY))]
    ELSE IF ev.op = "settle" THEN prev.position
    ELSE [x |-> RSub(I(ev.p.x), dragStart.x), y |-> RSub(I(ev.p.y), dragStart.y)]

\* the last operation passed a numeric position through constrainPosition, at
\* a numeric scale, with the constraint enabled and container and content
\* present (a move does so unless a zoom is in progress)
Constrained ==
    /\ props.constrainPan
    /\ mounted
    /\ \/ ev.op \in {"wheelPan", "settle"}
       \/ ev.op \in {"mouseMove", "touchMove"} /\ ~ev.zooming
    /\ Finite(scale) /\ Finite(scaleRef)
    /\ Finite(ConstrainedArg.x) /\ Finite(ConstrainedArg.y)

\* the extent of the content on screen, content * scale
ScaledContent ==
    [width  |-> RMul(I(ContentSize.width), scale),
     height |-> RMul(I(ContentSize.height), scale)]

\* what one axis is to become: centred when the content fits, else clamped
CentredOrClamped(p, viewport, extent) ==
    IF RLe(extent, I(viewport)) THEN RDiv(RSub(I(viewport), extent), I(2))
    ELSE Clamp(p, RSub(I(viewport), extent), I(0))

\* content larger than the viewport covers it: leading edge not inside the
\* viewport's leading edge, trailing edge not inside its trailing edge
EdgesCovered(p, viewport, extent) ==
    RLt(I(viewport), extent) => RLe(p, I(0)) /\ RLe(I(viewport), RAdd(p, extent))

\* C7: with the constraint enabled and container and content present,
\* constrainPosition returns per axis the centring offset
\* (viewport - content*scale)/2 when content*scale <= viewport, and otherwise
\* the position clamped into [viewport - content*scale, 0], so that larger
\* content never uncovers a viewport edge.
ConstrainPositionCentresOrClamps ==
    Constrained =>
        /\ positionRef.x = CentredOrClamped(ConstrainedArg.x, ContainerRect.width,
                                            ScaledContent.width)
        /\ positionRef.y = CentredOrClamped(ConstrainedArg.y, ContainerRect.height,
                                            ScaledContent.height)
        /\ position = positionRef
        /\ EdgesCovered(positionRef.x, ContainerRect.width, ScaledContent.width)
        /\ EdgesCovered(positionRef.y, ContainerRect.height, ScaledContent.height)

\* a drag pulled the wide content's left edge into the viewport and was held
\* at 0, while the content, exactly as high as the viewport, stayed centred
DragClampedAtLeadingEdge ==
    /\ Constrained
    /\ ev.op = "mouseMove"
    /\ RLt(I(ContainerRect.width), ScaledContent.width)
    /\ RLt(I(0), ConstrainedArg.x)
    /\ positionRef.x = I(0)
    /\ RLe(ScaledContent.height, I(ContainerRect.height))
    /\ ConstrainedArg.y # positionRef.y

\* the scale that fits an element of unscaled size w x h, with padding on
\* every side, into the viewport, capped at 5
FitScale(w, h, padding) ==
    RMin(RMin(Q(ContainerRect.width - 2 * padding, w),
              Q(ContainerRect.height - 2 * padding, h)), I(5))

\* an element at unscaled offset from the content's origin and of unscaled
\* size is centred in the viewport on one axis
CentredInViewport(p, offset, size, scl, viewport) ==
    RAdd(RAdd(p, RMul(I(offset), scl)), RDiv(RMul(I(size), scl), I(2)))
        = Q(viewport, 2)

\* C8: jumpToElement(element, {padding}) sets the scale to
\* min((viewportW - 2*padding)/elemW, (viewportH - 2*padding)/elemH, 5) and the
\* position that centres the element at that scale on both axes; an element
\* twice as wide as the viewport gets a scale below 1 at which it fits, padding
\* included.
JumpFitsAndCentres ==
    ev.op = "jump" =>
        /\ scaleRef = FitScale(ev.element.w, ev.element.h, ev.padding)
        /\ scale = scaleRef
        /\ CentredInViewport(positionRef.x, ev.element.x, ev.element.w, scaleRef,
                             ContainerRect.width)
        /\ CentredInViewport(positionRef.y, ev.element.y, ev.element.h, scaleRef,
                             ContainerRect.height)
        /\ position = positionRef
        /\ ev.element.w = 2 * ContainerRect.width =>
              /\ RLt(scaleRef, I(1))
              /\ RLe(RAdd(RMul(I(ev.element.w), scaleRef), I(2 * ev.padding)),
                     I(ContainerRect.width))

\* a jump, from a view zoomed and moved away from its initial transform, to an
\* element twice as wide as the viewport
JumpToDoubleWidthElement ==
    /\ ev.op = "jump"
    /\ ev.element.w = 2 * ContainerRect.width
    /\ ev.padding > 0
    /\ prev.scale # I(1)
    /\ prev.position # IPt(0, 0)
    /\ RLt(scaleRef, I(1))

\* C9: useSpatialView raises its error when called outside a
\* SpatialViewProvider, and only then.
UseSpatialViewFailsFast ==
    ev.op = "useSpatialView" => (ev.threw <=> ~ev.inProvider)

\* C10: wheel events arriving within one animation frame cause at most one
\* transform update.
WheelUpdatesCoalesced == frameUpdates <= 1

\* the operations that are gesture input or a jump
GestureOps ==
    {"wheelZoom", "wheelPan", "mouseDown", "mouseMove", "touchStart", "touchMove",
     "pinchStart", "pinchMove", "jump"}

\* C11: whenever a boundary-settle timer is pending and a new input arrives
\* (wheel zoom, wheel pan, mouse or touch drag, pinch, jumpToElement), that
\* timer is cancelled, so that the settle never overwrites the position of an
\* input that arrived after the timer was armed.
SettleTimerSuperseded ==
    [][(Pending(adjustmentTimeout) /\ steps' = steps + 1 /\ ev'.op \in GestureOps)
          => ~Pending(adjustmentTimeout')]_vars

\* a restore timer armed by jumpToElement is pending
JumpRestorePending == \E i \in DOMAIN restoreTimers : restoreTimers[i].jump

\* C12: at most one transition-restore timer is pending at a time, and as long
\* as the restore timer of the latest jump is pending (500 ms) and no input
\* followed the jump, the content's transition is the jump transition.
RestoreTimersCancelAndReplace ==
    /\ Len(restoreTimers) <= 1
    /\ (ev.op = "jump" /\ JumpRestorePending) => transition = "jump"

\* the operations that found a DOM reference they need absent
AbsentRefOps == {"wheelZoomNoContainer", "pinchMoveNoContainer", "jumpNoContainer"}

\* C13: with container or content absent, constrainPosition returns the
\* position it was given, and a wheel zoom, a pinch move and jumpToElement
\* leave scale, position, the gesture flags and every pending timer as they
\* were.
AbsentRefsNoOp ==
    /\ []((~mounted /\ ev.op \in {"wheelPan", "settle", "touchMove"})
            => positionRef = ConstrainedArg)
    /\ [][(steps' = steps + 1 /\ ev'.op \in AbsentRefOps)
            => UNCHANGED <<scale, position, scaleRef, positionRef, isZooming,
                           isDragging, isMoving, zoomTimeout, dragTimeout,
                           adjustmentTimeout, restoreTimers>>]_vars

\* no drag and no pinch is in progress
NoGestureInProgress == ~isDragging /\ lastTouchDistance = NoDistance

\* C14: a mouse-down or touch-start on a target inside an element excludePan
\* names starts no gesture: it leaves isDragging, the drag anchor and the last
\* pinch distance (and the transform) as they were, and with no other gesture
\* in progress every mouse-move or touch-move that follows it, up to the
\* mouse-up or touch-end, leaves position and scale unchanged.
ExcludedTargetStartsNoGesture ==
    /\ [][(steps' = steps + 1
           /\ ev'.op \in {"mouseDown", "mouseDownExcluded", "touchStart",
                          "touchStartExcluded", "pinchStart"}
           /\ ev'.target \cap props.excludePan # {})
            => UNCHANGED <<isDragging, dragStart, lastTouchDistance, isZooming,
                           scale, position, scaleRef, positionRef>>]_vars
    /\ [][(AfterExcludedStart /\ NoGestureInProgress /\ steps' = steps + 1
           /\ ev'.op \in {"mouseMove", "mouseMoveIdle", "touchMove", "touchMoveIdle",
                          "pinchMove", "pinchMoveNoContainer"})
            => UNCHANGED <<scale, position, scaleRef, positionRef>>]_vars

\* a mouse-move after a mouse-down on an excluded target found no drag in
\* progress and left the transform where it was
MovedAfterExcludedMouseDown ==
    /\ ev.op = "mouseMoveIdle"
    /\ ev.excluded
    /\ ~isDragging
    /\ positionRef = prev.position
    /\ scaleRef = prev.scale

\* a position that constrainPosition leaves as it is
WithinBounds(pos) ==
    /\ pos.x = CentredOrClamped(pos.x, ContainerRect.width, ScaledContent.width)
    /\ pos.y = CentredOrClamped(pos.y, ContainerRect.height, ScaledContent.height)

\* C15: with the constraint enabled, after every mouse-move or single-touch
\* move that updates the position of a drag, the stored position is one that
\* constrainPosition leaves as it is (centred or clamped), whatever preceded
\* the move.
DragConstrainedImmediately ==
    (props.constrainPan /\ mounted /\ ev.op \in {"mouseMove", "touchMove"}) =>
        /\ WithinBounds(positionRef)
        /\ position = positionRef

\* the view is at rest: no timer is pending and no gesture is in progress
AtRest == mounted /\ ~AnyPending /\ ~isZooming /\ ~isDragging /\ ~isMoving

\* C16: with the constraint enabled, once the timers armed by the last
\* operation that changed scale or position (wheel zoom, pinch, wheel pan,
\* drag, jumpToElement) have all fired and no further input arrives, the
\* position is one that constrainPosition leaves as it is; and no settle timer
\* is pending while isZooming is true.
SettlesWhenIdle ==
    /\ (/\ props.constrainPan
        /\ AtRest
        /\ scale = scaleRef
        /\ ev.op \in {"wheelZoom", "pinchMove", "wheelPan", "mouseMove", "touchMove",
                      "mouseUp", "touchEnd", "jump", "settle"})
          => WithinBounds(positionRef)
    /\ (mounted /\ isZooming) => ~Pending(adjustmentTimeout)

\* the content point shown at pointer p by (pos, scl), in content coordinates
ContentPointAt(p, pos, scl) ==
    [x |-> RDiv(RSub(I(p.x - ContainerRect.left), pos.x), scl),
     y |-> RDiv(RSub(I(p.y - ContainerRect.top), pos.y), scl)]

\* C17: with the boundary constraint disabled, after every move of a mouse
\* drag the content point that was under the pointer at mouse-down is under
\* the pointer still, whatever wheel zooms or wheel pans came in between.
DragKeepsGrabbedPoint ==
    (~props.constrainPan /\ DragMoved /\ ev.op = "mouseMove") =>
        ContentPointAt(ev.p, positionRef, scaleRef)
            = ContentPointAt(drag.p, drag.position, drag.scale)

\* C20: after every operation on the mounted view, scaleRef.current is the
\* scale state and positionRef.current is the position state, the setScale
\* and setPosition setters of the context included.
RefsMirrorState ==
    mounted => (scaleRef = scale /\ positionRef = position)

\* the midpoint of two touches, relative to the container
MidpointOf(touches) ==
    [x |-> RSub(RDiv(I(touches[1].x + touches[2].x), I(2)), I(ContainerRect.left)),
     y |-> RSub(RDiv(I(touches[1].y + touches[2].y), I(2)), I(ContainerRect.top))]

\* C18: every two-touch move of a pinch sets the scale to
\* clamp(scale * newDistance / lastDistance, minScale, maxScale) rounded to 3
\* decimals, keeps the content point under the midpoint of the two touches
\* where it was, and stores newDistance as the last distance; for every pair
\* of distances, a zero distance included.
PinchZoomLaw ==
    (ev.op = "pinchMove" /\ Finite(prev.scale)) =>
        /\ Finite(scaleRef) /\ Finite(positionRef.x) /\ Finite(positionRef.y)
        /\ scaleRef = Round3(Clamp(RMul(prev.scale,
                                        RDiv(touchDistance(ev.touches), ev.lastDistance)),
                                   props.minScale, props.maxScale))
        /\ AnchorFixed(MidpointOf(ev.touches), prev.position, prev.scale,
                       positionRef, scaleRef)
        /\ lastTouchDistance = touchDistance(ev.touches)

\* C19: gesture state is discarded when the gesture ends.  On the mounted
\* view isDragging is false after every mouse-up, mouse-leave, touch-end and
\* touch-cancel, and the last pinch distance is null after touch-end and
\* touch-cancel; every wheel zoom (wheel pan) leaves one idle timer pending
\* with its full 100 ms to run, isZooming (isMoving) is true only while that
\* timer or a pinch is pending, and with the timers firing (the settle timer
\* never staying due for ever) and no further input isZooming (isMoving) is
\* eventually false after a wheel zoom (pan).
GestureStateDiscarded ==
    /\ []((mounted /\ ev.op \in {"mouseUp", "touchEnd"}) => ~isDragging)
    /\ [](ev.op = "touchEnd" => lastTouchDistance = NoDistance)
    /\ []((mounted /\ isMoving) => Pending(dragTimeout))
    /\ []((mounted /\ isZooming) => (Pending(zoomTimeout) \/ lastTouchDistance # NoDistance))
    /\ [][(steps' = steps + 1 /\ mounted /\ ev'.op = "wheelZoom")
            => zoomTimeout' = ZoomIdleTime]_vars
    /\ [][(steps' = steps + 1 /\ mounted /\ ev'.op = "wheelPan")
            => dragTimeout' = DragIdleTime]_vars
    /\ []<>(~Due(adjustmentTimeout)) =>
          \A n \in 0..MaxSteps :
              /\ (mounted /\ steps = n /\ ev.op = "wheelZoom") ~> (steps # n \/ ~isZooming)
              /\ (mounted /\ steps = n /\ ev.op = "wheelPan") ~> (steps # n \/ ~isMoving)

\* 100 ms after a wheel zoom the idle timer has fired and isZooming is false
\* again, no other input having arrived
WheelZoomIdleEnded ==
    /\ mounted
    /\ ev.op = "wheelZoom"
    /\ ~Pending(zoomTimeout)
    /\ ~isZooming

\* C21: constrainPosition is idempotent: applied to its own result, at the
\* same scale and layout, it returns that result, for the stored position and
\* for every probe position; the position a settle has stored is therefore a
\* fixed point, and a settle that fires on a fixed point stores the same
\* position, leaves the transition alone and starts no restore timer.
ConstrainPositionIdempotent ==
    /\ [](mounted =>
            \A p \in ProbePositions \cup {positionRef} :
                constrainPosition(constrainPosition(p, scaleRef), scaleRef)
                    = constrainPosition(p, scaleRef))
    /\ []((mounted /\ ev.op = "settle")
            => constrainPosition(positionRef, scaleRef) = positionRef)
    /\ [][(/\ mounted
           /\ Due(adjustmentTimeout)
           /\ ~Pending(adjustmentTimeout')
           /\ steps' = steps
           /\ ev'.op = "settle"
           /\ positionRef = constrainPosition(positionRef, scaleRef))
            => UNCHANGED <<positionRef, position, transition, restoreTimers>>]_vars

\* a settle fired on a position an earlier constrainPosition had produced, with
\* the constraint enabled, away from where the view was mounted: nothing moved
\* and no snap-back transition was started
SettledAgainWithoutSnap ==
    /\ mounted
    /\ props.constrainPan
    /\ ev.op = "settle"
    /\ positionRef # props.initialPosition
    /\ positionRef = prev.position
    /\ transition = "normal"
    /\ restoreTimers = <<>>

====
